---- MODULE Spec2Model ----
\* Gamification ledger of src/bot.py: users earn points through missions
\* (test button, post reaction, poll answer), level up at point thresholds and
\* spend points on finite-stock rewards.  Every handler opens its own
\* SQLAlchemy session (async with async_session()), reads rows into session
\* local objects, mutates them in memory and writes them back at commit; the
\* handlers are coroutines, so they interleave at every awaited store call.
EXTENDS Integers, Sequences, FiniteSets, TLC

\* ---------------------------------------------------------------- bounds
\* Number of handler coroutines that may be in flight at once.
NumSessions == 2
\* Mission events are delivered only while the award keeps points <= MaxPoints.
MaxPoints == 30
\* In the specifications of a part of the handlers (SpecShop, SpecAward,
\* SpecStart) a mission event is delivered only to a user who holds at most
\* MaxEventPoints points.
MaxEventPoints == 10

Sessions == 1 .. NumSessions

\* ------------------------------------------------------- program constants
\* Platform ids of the people who press buttons.
UserIds == {1, 2}
\* Completion token of the test button ("test_mission", bot.py:243).  Mission
\* ids are the positive integers of the missions table, so the string sentinel
\* is represented by a value that is no mission id.
test_mission_id == 0
\* Points of the test button (bot.py:245).
TestPoints == 5
\* Points of a published post (bot.py:460) and of a poll (bot.py:529).
PostPoints == 5
PollPoints == 10
\* Seed of the rewards table: "Besito Digital", cost 20, stock 5 (bot.py:66).
RewardIds == {1}
SeedCost == 20
SeedStock == 5
\* A confirm_reward_<id> callback may carry any id; 2 is an id with no row.
RewardEventIds == {1, 2}
\* ADMIN_ID (bot.py:21): the platform id the administrative commands accept.
ADMIN_ID == 1

\* Column(JSON) (bot.py:39-40) is the plain JSON type, not
\* MutableList.as_mutable(JSON): the unit of work sees an attribute as changed
\* only when it is assigned, so list.append on a loaded row marks nothing and
\* the column is left out of the UPDATE that a commit flushes.
JsonMutationTracked == FALSE

NoRow == [present |-> FALSE]

\* A row of the users table as the ORM loads it (class User, defaults of the
\* columns on insert).
\* rows is the number of rows of the table that carry this telegram_id.
NewUser ==
    [present |-> TRUE, rows |-> 1, points |-> 0, level |-> 1,
     achievements |-> <<>>, completed_missions |-> <<>>]

\* x in list  /  x not in list  (Python membership on a JSON list).
Contains(list, x) == \E i \in 1 .. Len(list) : list[i] = x

\* level_thresholds = {2: 10, 3: 25, 4: 50, 5: 100}, iterated in insertion order.
level_thresholds == <<[level |-> 2, points_needed |-> 10],
                      [level |-> 3, points_needed |-> 25],
                      [level |-> 4, points_needed |-> 50],
                      [level |-> 5, points_needed |-> 100]>>

\* f"Nivel {level} Alcanzado"
LevelAchievement(level) ==
    CASE level = 2 -> "Nivel 2 Alcanzado"
      [] level = 3 -> "Nivel 3 Alcanzado"
      [] level = 4 -> "Nivel 4 Alcanzado"
      [] OTHER     -> "Nivel 5 Alcanzado"

\* award_achievement without its membership test: the name is appended and
\* True returned whether or not the list already holds it.
award_achievement_unchecked(user, achievement) ==
    [user |-> [user EXCEPT !.achievements = Append(@, achievement)],
     ret |-> TRUE]

\* award_achievement(user, achievement, session): append when absent.  ret is
\* the function's return value; it commits (flushing whatever the session holds
\* dirty) exactly when it returns True.
award_achievement(user, achievement) ==
    IF ~Contains(user.achievements, achievement)
    THEN [user |-> [user EXCEPT !.achievements = Append(@, achievement)],
          ret |-> TRUE]
    ELSE [user |-> user, ret |-> FALSE]

\* check_level_up(user, session): the first entry of the table, in order, with
\* points >= points_needed and level < entry.level raises the level to that
\* entry's level, grants its achievement and returns True at once; the loop
\* does not go on to later entries.
RECURSIVE LevelScan(_, _)
LevelScan(user, i) ==
    IF i > Len(level_thresholds)
    THEN [user |-> user, ret |-> FALSE]
    ELSE IF user.points >= level_thresholds[i].points_needed
            /\ user.level < level_thresholds[i].level
         THEN [user |-> award_achievement(
                           [user EXCEPT !.level = level_thresholds[i].level],
                           LevelAchievement(level_thresholds[i].level)).user,
               ret |-> TRUE]
         ELSE LevelScan(user, i + 1)

check_level_up(user) == LevelScan(user, 1)

\* ------------------------------------------------------------------ state
VARIABLES
    users,      \* users table: telegram_id -> row (NoRow before /start)
    missions,   \* missions table: id -> row
    rewards,    \* rewards table: id -> [cost, stock]
    sess,       \* handler coroutines: their position and session-local objects
    probe       \* the user object and result of a direct award_achievement call

vars == <<users, missions, rewards, sess, probe>>

MissionIds == {1, 2}
\* A post reaction may name any id; 3 is an id with no row.
EventMissionIds == {1, 2, 3}

\* found: the reward the handler asked for has a row.  overtaken: an
\* administrator's /resetear was handled after this handler read its user row
\* and before it answered.
Idle ==
    [pc |-> "idle", kind |-> "none", uid |-> 0, arg |-> 0, delta |-> 0,
     snap |-> NoRow, user |-> NoRow, stock |-> 0, found |-> FALSE,
     overtaken |-> FALSE, out |-> "none"]

\* No direct award_achievement call has been made.
NoCall ==
    [called |-> FALSE, user |-> NewUser, before |-> <<>>, name |-> "", ret |-> FALSE]

\* The UPDATE a commit flushes writes only the columns whose attribute was
\* assigned since the load, with the session's in-memory value (an absolute
\* value, not an increment).  FlushPoints is the flush after user.points was
\* assigned, FlushLevel the one after user.level was assigned.
FlushLists(row, user) ==
    IF JsonMutationTracked
    THEN [row EXCEPT !.achievements = user.achievements,
                     !.completed_missions = user.completed_missions]
    ELSE row

FlushPoints(row, user) == FlushLists([row EXCEPT !.points = user.points], user)

FlushLevel(row, user) == FlushLists([row EXCEPT !.level = user.level], user)

\* ---------------------------------------------------------------- init_db
\* A name of the seed list that has no row in the rewards table.
NoReward == [rows |-> 0, cost |-> 0, stock |-> 0]

\* init_db, lines 77-81: every reward of the seed list is looked up by name
\* and added only when no row carries the name; then one commit.  rows is the
\* number of rows of the table that carry the name.
seed_rewards(table) ==
    [r \in RewardIds |->
        IF table[r].rows > 0
        THEN table[r]
        ELSE [rows |-> 1, cost |-> SeedCost, stock |-> SeedStock]]

\* ------------------------------------------------------------------- Init
\* The store after init_db (rewards seeded), /start by user 1, one /publicar
\* (mission 1, 5 points) and one /encuesta (mission 2, 10 points) by the admin;
\* user 2 has not registered.  No handler is running.
SeededStore ==
    /\ users = [u \in UserIds |-> IF u = 1 THEN NewUser ELSE NoRow]
    /\ missions = [m \in MissionIds |->
                     IF m = 1
                     THEN [present |-> TRUE, type |-> "post", points |-> PostPoints]
                     ELSE [present |-> TRUE, type |-> "poll", points |-> PollPoints]]
    /\ rewards = seed_rewards([r \in RewardIds |-> NoReward])
    /\ sess = [s \in Sessions |-> Idle]

Init ==
    /\ SeededStore
    /\ probe = NoCall

\* ------------------------------------------------------- award handlers
\* The environment delivers a mission event for u worth d points.
Deliverable(u, d) == users[u].present => users[u].points + d <= MaxPoints

Capped(u) == users[u].present => users[u].points <= MaxEventPoints

\* Lines 240-246 / 486-493 / 554-562 up to the first awaited commit: the user
\* row is loaded, and when the token is absent from completed_missions the
\* in-memory object gets the points, the token and (post, poll) the first-time
\* achievement.  The code between the load and the commit does not await.
AwardRead(s, kind, u, token, d, first) ==
    LET row == users[u]
        base == [Idle EXCEPT !.kind = kind, !.uid = u, !.arg = token,
                             !.delta = d, !.snap = row, !.user = row]
        mem == [row EXCEPT !.points = @ + d,
                           !.completed_missions = Append(@, token)]
    IN  IF ~row.present
        THEN sess' = [sess EXCEPT ![s] =
                        [base EXCEPT !.pc = "done", !.out = "notfound"]]
        ELSE IF Contains(row.completed_missions, token)
        THEN sess' = [sess EXCEPT ![s] =
                        [base EXCEPT !.pc = "done", !.out = "already"]]
        ELSE sess' = [sess EXCEPT ![s] =
                        [base EXCEPT !.pc = "award",
                                     !.user = IF first = ""
                                              THEN mem
                                              ELSE award_achievement(mem, first).user]]

\* handle_test_points that registers a user it does not find.
handle_test_points_registering(s, u) ==
    /\ sess[s].pc = "idle"
    /\ Deliverable(u, TestPoints)
    /\ IF users[u].present
       THEN /\ AwardRead(s, "test", u, test_mission_id, TestPoints, "")
            /\ UNCHANGED users
       ELSE /\ users' = [users EXCEPT ![u] = NewUser]
            /\ sess' = [sess EXCEPT ![s] =
                          [Idle EXCEPT !.pc = "done", !.kind = "test",
                                       !.uid = u, !.out = "notfound"]]
    /\ UNCHANGED <<missions, rewards, probe>>

\* handle_test_points: token "test_mission", 5 points, no first-time achievement.
handle_test_points(s, u) ==
    /\ sess[s].pc = "idle"
    /\ Deliverable(u, TestPoints)
    /\ AwardRead(s, "test", u, test_mission_id, TestPoints, "")
    /\ UNCHANGED <<users, missions, rewards, probe>>

\* handle_post_reaction: session.get(Mission, mission_id), then the user.
handle_post_reaction(s, u, m) ==
    /\ sess[s].pc = "idle"
    /\ IF m \in MissionIds /\ missions[m].present
       THEN /\ missions[m].type = "post"
            /\ Deliverable(u, missions[m].points)
            /\ AwardRead(s, "post", u, m, missions[m].points, "Primera Reaccion")
       ELSE sess' = [sess EXCEPT ![s] =
                       [Idle EXCEPT !.pc = "done", !.kind = "post", !.uid = u,
                                    !.arg = m, !.out = "notfound"]]
    /\ UNCHANGED <<users, missions, rewards, probe>>

\* handle_poll_answer: the mission whose poll_id is the answered poll's id.
handle_poll_answer(s, u, m) ==
    /\ sess[s].pc = "idle"
    /\ IF m \in MissionIds /\ missions[m].present /\ missions[m].type = "poll"
       THEN /\ Deliverable(u, missions[m].points)
            /\ AwardRead(s, "poll", u, m, missions[m].points, "Primera Encuesta")
       ELSE /\ m \notin MissionIds
            /\ sess' = [sess EXCEPT ![s] =
                          [Idle EXCEPT !.pc = "done", !.kind = "poll", !.uid = u,
                                       !.arg = m, !.out = "notfound"]]
    /\ UNCHANGED <<users, missions, rewards, probe>>

\* The first commit of the award branch (247; 493-494; 562-563) flushes the
\* assigned points.  check_level_up then runs without awaiting up to its own
\* commit: when it raises the level, that level is still only in memory.
CommitAward(s) ==
    /\ sess[s].pc = "award"
    /\ users' = [users EXCEPT ![sess[s].uid] = FlushPoints(@, sess[s].user)]
    /\ LET up == check_level_up(sess[s].user)
       IN  sess' = [sess EXCEPT ![s] =
                      IF up.ret
                      THEN [@ EXCEPT !.pc = "levelup", !.user = up.user]
                      ELSE [@ EXCEPT !.pc = "done", !.out = "awarded"]]
    /\ UNCHANGED <<missions, rewards, probe>>

\* The commit inside award_achievement (113), reached from check_level_up
\* (105), flushes the assigned level; the commit at 106 then has nothing left.
CommitLevel(s) ==
    /\ sess[s].pc = "levelup"
    /\ users' = [users EXCEPT ![sess[s].uid] = FlushLevel(@, sess[s].user)]
    /\ sess' = [sess EXCEPT ![s] = [@ EXCEPT !.pc = "done", !.out = "levelup"]]
    /\ UNCHANGED <<missions, rewards, probe>>

\* --------------------------------------------------- redemption handler
\* handle_confirm_reward, line 342: reward = await session.get(Reward, id).
ConfirmReadReward(s, u, r) ==
    /\ sess[s].pc = "idle"
    /\ sess' = [sess EXCEPT ![s] =
                  [Idle EXCEPT !.pc = "rd_user", !.kind = "redeem", !.uid = u,
                               !.arg = r, !.found = (r \in RewardIds),
                               !.stock = IF r \in RewardIds
                                         THEN rewards[r].stock ELSE 0]]
    /\ UNCHANGED <<users, missions, rewards, probe>>

\* Lines 343-348 with the two tests swapped: the balance is tested first and
\* the stock only for a user who can pay.
ConfirmReadUser_points_first(s) ==
    /\ sess[s].pc = "rd_user"
    /\ LET row == users[sess[s].uid]
           cost == rewards[sess[s].arg].cost
       IN  sess' = [sess EXCEPT ![s] =
             IF sess[s].found /\ row.present
             THEN IF row.points < cost
                  THEN [@ EXCEPT !.pc = "done", !.snap = row, !.user = row,
                                 !.out = "insufficient"]
                  ELSE IF sess[s].stock > 0
                  THEN [@ EXCEPT !.pc = "redeem", !.snap = row,
                                 !.user = [row EXCEPT !.points = @ - cost],
                                 !.delta = cost]
                  ELSE [@ EXCEPT !.pc = "done", !.snap = row, !.user = row,
                                 !.out = "unavailable"]
             ELSE [@ EXCEPT !.pc = "done", !.snap = row, !.user = row,
                            !.out = "unavailable"]]
    /\ UNCHANGED <<users, missions, rewards, probe>>

\* Lines 343-348: the user is loaded; with stock > 0 and points >= cost the
\* in-memory user is debited and the in-memory reward decremented.
ConfirmReadUser(s) ==
    /\ sess[s].pc = "rd_user"
    /\ LET row == users[sess[s].uid]
           cost == rewards[sess[s].arg].cost
       IN  sess' = [sess EXCEPT ![s] =
             IF sess[s].found /\ row.present /\ sess[s].stock > 0
             THEN IF row.points >= cost
                  THEN [@ EXCEPT !.pc = "redeem", !.snap = row,
                                 !.user = [row EXCEPT !.points = @ - cost],
                                 !.delta = cost]
                  ELSE [@ EXCEPT !.pc = "done", !.snap = row, !.user = row,
                                 !.out = "insufficient"]
             ELSE [@ EXCEPT !.pc = "done", !.snap = row, !.user = row,
                            !.out = "unavailable"]]
    /\ UNCHANGED <<users, missions, rewards, probe>>

\* Line 349 with an UPDATE of users that names no row: the debited points are
\* written to every row of the table.
CommitRedeem_all_users(s) ==
    /\ sess[s].pc = "redeem"
    /\ users' = [u \in UserIds |->
                   IF users[u].present
                   THEN FlushPoints(users[u], sess[s].user)
                   ELSE users[u]]
    /\ rewards' = [rewards EXCEPT ![sess[s].arg].stock = sess[s].stock - 1]
    /\ sess' = [sess EXCEPT ![s] = [@ EXCEPT !.pc = "done", !.out = "redeemed"]]
    /\ UNCHANGED <<missions, probe>>

\* Line 349: one commit flushes UPDATE users SET points and UPDATE rewards SET
\* stock, each with the session's in-memory value.
CommitRedeem(s) ==
    /\ sess[s].pc = "redeem"
    /\ users' = [users EXCEPT ![sess[s].uid] = FlushPoints(@, sess[s].user)]
    /\ rewards' = [rewards EXCEPT ![sess[s].arg].stock = sess[s].stock - 1]
    /\ sess' = [sess EXCEPT ![s] = [@ EXCEPT !.pc = "done", !.out = "redeemed"]]
    /\ UNCHANGED <<missions, probe>>

\* ------------------------------------------------------- store failure
\* An awaited commit raises (the store is unavailable): the handler's except
\* Exception branch answers with its error message and async with closes the
\* session, which rolls back whatever that commit had not written.  What an
\* earlier commit of the same handler wrote stays written.
CommitFails(s) ==
    /\ sess[s].pc \in {"award", "levelup", "redeem"}
    /\ sess' = [sess EXCEPT ![s] = [@ EXCEPT !.pc = "done", !.out = "error"]]
    /\ UNCHANGED <<users, missions, rewards, probe>>

\* ---------------------------------------------------------- season reset
\* session.execute (426) is handed a plain str.  The 2.x Session, the only
\* one that has async_sessionmaker (bot.py:10), accepts executable constructs
\* only and raises ArgumentError for a str before any SQL is sent.
TextualSqlAccepted == FALSE

\* The record the UPDATE of line 426 would leave in every row.
ResetRow(row) ==
    IF row.present
    THEN [row EXCEPT !.points = 0, !.level = 1, !.achievements = <<>>,
                     !.completed_missions = <<>>]
    ELSE row

\* The handlers that have read their user row and not yet answered.
InFlight(s) == sess[s].pc \in {"award", "levelup", "redeem"}

\* reset_season: anyone but ADMIN_ID is turned away (421-423); for ADMIN_ID the
\* execute of line 426 raises, the commit of line 427 is not reached and the
\* except branch answers "Ocurrio un error al resetear la temporada." (431).
reset_season(s, caller) ==
    /\ sess[s].pc = "idle"
    /\ IF caller # ADMIN_ID
       THEN /\ sess' = [sess EXCEPT ![s] =
                          [Idle EXCEPT !.pc = "done", !.kind = "reset",
                                       !.uid = caller, !.out = "denied"]]
            /\ UNCHANGED users
       ELSE /\ sess' = [s1 \in Sessions |->
                          IF s1 = s
                          THEN [Idle EXCEPT !.pc = "done", !.kind = "reset",
                                            !.uid = caller,
                                            !.out = IF TextualSqlAccepted
                                                    THEN "reset" ELSE "error"]
                          ELSE IF InFlight(s1)
                               THEN [sess[s1] EXCEPT !.overtaken = TRUE]
                               ELSE sess[s1]]
            /\ users' = IF TextualSqlAccepted
                        THEN [u \in UserIds |-> ResetRow(users[u])]
                        ELSE users
    /\ UNCHANGED <<missions, rewards, probe>>

\* ------------------------------------------------- administrative commands
\* Number of words of a command message (len(message.text.split())).
WordCounts == {1, 2, 4}

\* Lines 448-453 / 512-517 of a command that needs at least need words and
\* creates a mission: a sender who is not allowed is turned away, a message
\* that is too short is answered with the usage line, otherwise Mission(...)
\* is added to the session and the commit awaited.
CommandRead(s, kind, caller, allowed, words, need, points) ==
    sess' = [sess EXCEPT ![s] =
               IF ~allowed
               THEN [Idle EXCEPT !.pc = "done", !.kind = kind, !.uid = caller,
                                 !.out = "denied"]
               ELSE IF words < need
               THEN [Idle EXCEPT !.pc = "done", !.kind = kind, !.uid = caller,
                                 !.out = "usage"]
               ELSE [Idle EXCEPT !.pc = "mission", !.kind = kind,
                                 !.uid = caller, !.delta = points]]

\* cmd_publish without the test of line 448: every sender is allowed.
cmd_publish_ungated(s, caller, words) ==
    /\ sess[s].pc = "idle"
    /\ CommandRead(s, "publish", caller, TRUE, words, 2, PostPoints)
    /\ UNCHANGED <<users, missions, rewards, probe>>

\* cmd_publish (/publicar <texto>): a "post" mission of 5 points, for a
\* sender whose id is ADMIN_ID.
cmd_publish(s, caller, words) ==
    /\ sess[s].pc = "idle"
    /\ CommandRead(s, "publish", caller, caller = ADMIN_ID, words, 2, PostPoints)
    /\ UNCHANGED <<users, missions, rewards, probe>>

\* cmd_poll (/encuesta <pregunta> <opcion1> <opcion2> ...): a "poll" mission
\* of 10 points.  With four words or more there are two options or more, so
\* the test of line 521 never turns a message away.
cmd_poll(s, caller, words) ==
    /\ sess[s].pc = "idle"
    /\ CommandRead(s, "newpoll", caller, caller = ADMIN_ID, words, 4, PollPoints)
    /\ UNCHANGED <<users, missions, rewards, probe>>

\* The commit of line 465 / 534 inserts the mission; its id is the next one of
\* the table.  The handler then sends the post or the poll to the channel.
CommitMission(s) ==
    /\ sess[s].pc = "mission"
    /\ \E m \in MissionIds :
          /\ ~missions[m].present
          /\ \A m1 \in MissionIds : m1 < m => missions[m1].present
          /\ missions' = [missions EXCEPT ![m] =
                             [present |-> TRUE,
                              type |-> IF sess[s].kind = "publish"
                                       THEN "post" ELSE "poll",
                              points |-> sess[s].delta]]
          /\ sess' = [sess EXCEPT ![s] = [@ EXCEPT !.pc = "link", !.arg = m]]
    /\ UNCHANGED <<users, rewards, probe>>

\* The commit of line 472 / 543 stores the post_id / poll_id the channel
\* returned; the handler answers that the post or poll was sent.
CommitLink(s) ==
    /\ sess[s].pc = "link"
    /\ sess' = [sess EXCEPT ![s] = [@ EXCEPT !.pc = "done", !.out = "published"]]
    /\ UNCHANGED <<users, missions, rewards, probe>>

\* The poll of mission m carries its poll_id: no handler is between the
\* insert of m and the commit that stores the id.
Linked(m) == \A s \in Sessions : ~(sess[s].pc = "link" /\ sess[s].arg = m)

\* export_data (/exportar): anyone but ADMIN_ID is turned away; for ADMIN_ID
\* the users are read and sent as a CSV document.
export_data(s, caller) ==
    /\ sess[s].pc = "idle"
    /\ sess' = [sess EXCEPT ![s] =
                  [Idle EXCEPT !.pc = "done", !.kind = "export", !.uid = caller,
                               !.out = IF caller # ADMIN_ID
                                       THEN "denied" ELSE "exported"]]
    /\ UNCHANGED <<users, missions, rewards, probe>>

\* The bot is started again: main (577-581) runs init_db before it polls for
\* events, so no handler is running.
init_db ==
    /\ \A s \in Sessions : sess[s].pc = "idle"
    /\ rewards' = seed_rewards(rewards)
    /\ UNCHANGED <<users, missions, sess, probe>>

\* The handler has answered; async with closes the session.
Finish(s) ==
    /\ sess[s].pc = "done"
    /\ sess' = [sess EXCEPT ![s] = Idle]
    /\ UNCHANGED <<users, missions, rewards, probe>>

Next ==
    \/ \E s \in Sessions, u \in UserIds : handle_test_points(s, u)
    \/ \E s \in Sessions, u \in UserIds, m \in EventMissionIds :
          handle_post_reaction(s, u, m)
    \/ \E s \in Sessions, u \in UserIds, m \in EventMissionIds :
          handle_poll_answer(s, u, m)
    \/ \E s \in Sessions : CommitAward(s)
    \/ \E s \in Sessions : CommitLevel(s)
    \/ \E s \in Sessions, u \in UserIds, r \in RewardEventIds :
          ConfirmReadReward(s, u, r)
    \/ \E s \in Sessions : ConfirmReadUser(s)
    \/ \E s \in Sessions : CommitRedeem(s)
    \/ \E s \in Sessions : CommitFails(s)
    \/ \E s \in Sessions : Finish(s)

Spec == Init /\ [][Next]_vars

\* The same handlers run one after the other: an event is taken up only when
\* every handler started earlier has answered.
Answered(s) ==
    \A s1 \in Sessions \ {s} : sess[s1].pc \in {"idle", "done"}

NextSeq ==
    \/ \E s \in Sessions, u \in UserIds :
          Answered(s) /\ handle_test_points(s, u)
    \/ \E s \in Sessions, u \in UserIds, m \in EventMissionIds :
          Answered(s) /\ handle_post_reaction(s, u, m)
    \/ \E s \in Sessions, u \in UserIds, m \in EventMissionIds :
          Answered(s) /\ handle_poll_answer(s, u, m)
    \/ \E s \in Sessions : CommitAward(s)
    \/ \E s \in Sessions : CommitLevel(s)
    \/ \E s \in Sessions, u \in UserIds, r \in RewardEventIds :
          Answered(s) /\ ConfirmReadReward(s, u, r)
    \/ \E s \in Sessions : ConfirmReadUser(s)
    \/ \E s \in Sessions : CommitRedeem(s)
    \/ \E s \in Sessions : CommitFails(s)
    \/ \E s \in Sessions : Finish(s)

SpecSeq == Init /\ [][NextSeq]_vars

\* The shop: poll answers, by which points are earned, and confirmations of
\* redemptions, interleaved, with the store available throughout.
NextShop ==
    \/ \E s \in Sessions, u \in UserIds, m \in EventMissionIds :
          Capped(u) /\ handle_poll_answer(s, u, m)
    \/ \E s \in Sessions : CommitAward(s)
    \/ \E s \in Sessions : CommitLevel(s)
    \/ \E s \in Sessions, u \in UserIds, r \in RewardEventIds :
          ConfirmReadReward(s, u, r)
    \/ \E s \in Sessions : ConfirmReadUser(s)
    \/ \E s \in Sessions : CommitRedeem(s)
    \/ \E s \in Sessions : Finish(s)

SpecShop == Init /\ [][NextShop]_vars

\* The mission events alone: test button, post reactions and poll answers,
\* interleaved, with the store available throughout.
NextAward ==
    \/ \E s \in Sessions, u \in UserIds :
          Capped(u) /\ handle_test_points(s, u)
    \/ \E s \in Sessions, u \in UserIds, m \in EventMissionIds :
          Capped(u) /\ handle_post_reaction(s, u, m)
    \/ \E s \in Sessions, u \in UserIds, m \in EventMissionIds :
          Capped(u) /\ handle_poll_answer(s, u, m)
    \/ \E s \in Sessions : CommitAward(s)
    \/ \E s \in Sessions : CommitLevel(s)
    \/ \E s \in Sessions : Finish(s)

SpecAward == Init /\ [][NextAward]_vars

\* The administrator's /resetear among the test button and the redemptions,
\* with the store available throughout.
NextReset ==
    \/ \E s \in Sessions, u \in UserIds : handle_test_points(s, u)
    \/ \E s \in Sessions : CommitAward(s)
    \/ \E s \in Sessions : CommitLevel(s)
    \/ \E s \in Sessions, u \in UserIds, r \in RewardEventIds :
          ConfirmReadReward(s, u, r)
    \/ \E s \in Sessions : ConfirmReadUser(s)
    \/ \E s \in Sessions : CommitRedeem(s)
    \/ \E s \in Sessions, caller \in UserIds : reset_season(s, caller)
    \/ \E s \in Sessions : Finish(s)

SpecReset == Init /\ [][NextReset]_vars

\* ------------------------------------------------------------ registration
\* INSERT INTO users without the UNIQUE constraint of telegram_id: a second
\* row for the same id is stored.
insert_user_unconstrained(table, u) ==
    [table |-> [table EXCEPT ![u] = IF @.present
                                    THEN [@ EXCEPT !.rows = @ + 1]
                                    ELSE NewUser],
     ok |-> TRUE]

\* The INSERT that the commit of line 142 flushes, under telegram_id =
\* Column(Integer, unique=True) (35): with a row of that id in the table the
\* statement fails (ok = FALSE, IntegrityError) and stores nothing.
insert_user(table, u) ==
    IF table[u].present
    THEN [table |-> table, ok |-> FALSE]
    ELSE [table |-> [table EXCEPT ![u] = NewUser], ok |-> TRUE]

\* cmd_start, lines 137-141: the row is looked up; when there is one the
\* handler welcomes the user, otherwise User(telegram_id=...) is added to the
\* session and the commit is awaited.
cmd_start(s, u) ==
    /\ sess[s].pc = "idle"
    /\ sess' = [sess EXCEPT ![s] =
                  IF users[u].present
                  THEN [Idle EXCEPT !.pc = "done", !.kind = "start", !.uid = u,
                                    !.snap = users[u], !.user = users[u],
                                    !.out = "welcome"]
                  ELSE [Idle EXCEPT !.pc = "insert", !.kind = "start", !.uid = u,
                                    !.user = NewUser]]
    /\ UNCHANGED <<users, missions, rewards, probe>>

\* Line 142 and what follows it: the INSERT succeeds and the user is welcomed
\* (144), or it raises IntegrityError and the handler answers "Ya estas
\* registrado" (148-152).
CommitInsert(s) ==
    /\ sess[s].pc = "insert"
    /\ LET r == insert_user(users, sess[s].uid)
       IN  /\ users' = r.table
           /\ sess' = [sess EXCEPT ![s] =
                         [@ EXCEPT !.pc = "done",
                                   !.out = IF r.ok THEN "welcome"
                                           ELSE "registered"]]
    /\ UNCHANGED <<missions, rewards, probe>>

\* The store right after init_db: no user has sent /start yet.
InitStart ==
    /\ users = [u \in UserIds |-> NoRow]
    /\ missions = [m \in MissionIds |->
                     IF m = 1
                     THEN [present |-> TRUE, type |-> "post", points |-> PostPoints]
                     ELSE [present |-> TRUE, type |-> "poll", points |-> PollPoints]]
    /\ rewards = seed_rewards([r \in RewardIds |-> NoReward])
    /\ sess = [s \in Sessions |-> Idle]
    /\ probe = NoCall

\* /start and the test button, with the store available throughout.
NextStart ==
    \/ \E s \in Sessions, u \in UserIds : cmd_start(s, u)
    \/ \E s \in Sessions : CommitInsert(s)
    \/ \E s \in Sessions, u \in UserIds :
          Capped(u) /\ handle_test_points(s, u)
    \/ \E s \in Sessions : CommitAward(s)
    \/ \E s \in Sessions : CommitLevel(s)
    \/ \E s \in Sessions : Finish(s)

SpecStart == InitStart /\ [][NextStart]_vars

\* The store after /start by both users.
InitPair ==
    /\ users = [u \in UserIds |-> NewUser]
    /\ missions = [m \in MissionIds |->
                     IF m = 1
                     THEN [present |-> TRUE, type |-> "post", points |-> PostPoints]
                     ELSE [present |-> TRUE, type |-> "poll", points |-> PollPoints]]
    /\ rewards = seed_rewards([r \in RewardIds |-> NoReward])
    /\ sess = [s \in Sessions |-> Idle]
    /\ probe = NoCall

\* No handler for user u is open: each one that was started for u has
\* answered and closed its session.
Alone(u) ==
    \A s \in Sessions : sess[s].pc = "idle" \/ sess[s].uid # u

\* Two registered users answer polls and confirm redemptions: the handlers of
\* one user run one after the other and interleave with those of the other
\* user, with the store available throughout.
NextPair ==
    \/ \E s \in Sessions, u \in UserIds, m \in EventMissionIds :
          Alone(u) /\ Capped(u) /\ handle_poll_answer(s, u, m)
    \/ \E s \in Sessions : CommitAward(s)
    \/ \E s \in Sessions : CommitLevel(s)
    \/ \E s \in Sessions, u \in UserIds, r \in RewardIds :
          Alone(u) /\ ConfirmReadReward(s, u, r)
    \/ \E s \in Sessions : ConfirmReadUser(s)
    \/ \E s \in Sessions : CommitRedeem(s)
    \/ \E s \in Sessions : Finish(s)

SpecPair == InitPair /\ [][NextPair]_vars

\* The store after init_db and /start by both users: no mission yet.
InitAdmin ==
    /\ users = [u \in UserIds |-> NewUser]
    /\ missions = [m \in MissionIds |-> [present |-> FALSE]]
    /\ rewards = seed_rewards([r \in RewardIds |-> NoReward])
    /\ sess = [s \in Sessions |-> Idle]
    /\ probe = NoCall

\* The commands /publicar, /encuesta, /exportar and /resetear sent by anyone,
\* among reactions to the posts and answers to the polls they create; the
\* handlers of one user run one after the other.
NextAdmin ==
    \/ \E s \in Sessions, caller \in UserIds, words \in WordCounts :
          Alone(caller) /\ cmd_publish(s, caller, words)
    \/ \E s \in Sessions, caller \in UserIds, words \in WordCounts :
          Alone(caller) /\ cmd_poll(s, caller, words)
    \/ \E s \in Sessions : CommitMission(s)
    \/ \E s \in Sessions : CommitLink(s)
    \/ \E s \in Sessions, caller \in UserIds :
          Alone(caller) /\ export_data(s, caller)
    \/ \E s \in Sessions, caller \in UserIds :
          Alone(caller) /\ reset_season(s, caller)
    \/ \E s \in Sessions, u \in UserIds, m \in MissionIds :
          Alone(u) /\ Capped(u) /\ handle_post_reaction(s, u, m)
    \/ \E s \in Sessions, u \in UserIds, m \in MissionIds :
          Alone(u) /\ Capped(u) /\ Linked(m) /\ handle_poll_answer(s, u, m)
    \/ \E s \in Sessions : CommitAward(s)
    \/ \E s \in Sessions : CommitLevel(s)
    \/ \E s \in Sessions : Finish(s)

SpecAdmin == InitAdmin /\ [][NextAdmin]_vars

\* Everything that runs beside the shop: restarts of the bot, /start, poll
\* answers, confirmations of redemptions and /resetear, interleaved, with the
\* store available throughout.
NextStock ==
    \/ init_db
    \/ \E s \in Sessions, u \in UserIds : cmd_start(s, u)
    \/ \E s \in Sessions : CommitInsert(s)
    \/ \E s \in Sessions, u \in UserIds, m \in EventMissionIds :
          Capped(u) /\ handle_poll_answer(s, u, m)
    \/ \E s \in Sessions : CommitAward(s)
    \/ \E s \in Sessions : CommitLevel(s)
    \/ \E s \in Sessions, u \in UserIds, r \in RewardEventIds :
          ConfirmReadReward(s, u, r)
    \/ \E s \in Sessions : ConfirmReadUser(s)
    \/ \E s \in Sessions : CommitRedeem(s)
    \/ \E s \in Sessions, caller \in UserIds : reset_season(s, caller)
    \/ \E s \in Sessions : Finish(s)

SpecStock == Init /\ [][NextStock]_vars

\* --------------------------------------- direct calls of award_achievement
\* Longest achievements list a direct call starts from.
MaxAchLen == 2

\* Every name the program grants (105, 493, 562).
AchievementNames ==
    {"Primera Reaccion", "Primera Encuesta", "Nivel 2 Alcanzado",
     "Nivel 3 Alcanzado", "Nivel 4 Alcanzado", "Nivel 5 Alcanzado"}

NoDup(list) ==
    \A i, j \in 1 .. Len(list) : i # j => list[i] # list[j]

Occurrences(list, x) == Cardinality({i \in 1 .. Len(list) : list[i] = x})

\* The achievements lists a loaded user can carry: names granted one by one.
LoadedLists ==
    {l \in UNION {[1 .. n -> AchievementNames] : n \in 0 .. MaxAchLen} : NoDup(l)}

InitGrant ==
    /\ SeededStore
    /\ probe \in {[NoCall EXCEPT !.user.achievements = l] : l \in LoadedLists}

\* award_achievement(user, name, session) called on the object of the last call.
GrantCall(name) ==
    /\ LET r == award_achievement(probe.user, name)
       IN  probe' = [called |-> TRUE, user |-> r.user,
                     before |-> probe.user.achievements,
                     name |-> name, ret |-> r.ret]
    /\ UNCHANGED <<users, missions, rewards, sess>>

NextGrant == \E name \in AchievementNames : GrantCall(name)

SpecGrant == InitGrant /\ [][NextGrant]_vars

\* ================================================================ claims
\* Helpers of the statements below.
TookAward(s) == sess[s].out \in {"awarded", "levelup"}

Starts(s) == sess[s].pc = "idle" /\ sess'[s].pc # "idle"

CommitsAward(s) ==
    sess[s].pc = "award" /\ sess'[s].pc # "award" /\ sess'[s].out # "error"

CommitsRedeem(s) == sess[s].pc = "redeem" /\ sess'[s].out = "redeemed"

\* The highest level of the table whose threshold p has reached, 1 if none.
HighestLevel(p) ==
    LET met == {i \in 1 .. Len(level_thresholds) :
                  p >= level_thresholds[i].points_needed}
    IN  IF met = {} THEN 1
        ELSE level_thresholds[CHOOSE i \in met : \A j \in met : j <= i].level

\* C1: with the handlers run one after the other, a run for (u, t) that starts
\* after a run for the same (u, t) has finished with the award reports "already
\* completed" and changes no row.
C1_SequentialIdempotent ==
    [][\A s1, s2 \in Sessions :
          (/\ s1 # s2
           /\ sess[s1].pc = "done" /\ TookAward(s1)
           /\ Starts(s2)
           /\ sess'[s2].kind = sess[s1].kind
           /\ sess'[s2].uid = sess[s1].uid
           /\ sess'[s2].arg = sess[s1].arg)
          => (sess'[s2].out = "already" /\ users' = users)]_vars

\* C2: two handlers for the same (user, token) are never both in the award
\* branch, i.e. both past the completed_missions test with their commit pending.
C2_ConcurrentClaimOnce ==
    \A s1, s2 \in Sessions :
        (/\ s1 # s2
         /\ sess[s1].pc = "award" /\ sess[s2].pc = "award"
         /\ sess[s1].uid = sess[s2].uid)
        => sess[s1].arg # sess[s2].arg

\* C3: the persisted stock of every reward is >= 0, and no two confirmations
\* both decrement a reward from stock 1.
C3_StockNonNegative ==
    /\ \A r \in RewardIds : rewards[r].stock >= 0
    /\ \A s1, s2 \in Sessions :
          (/\ s1 # s2
           /\ sess[s1].out = "redeemed" /\ sess[s2].out = "redeemed"
           /\ sess[s1].arg = sess[s2].arg)
          => ~(sess[s1].stock = 1 /\ sess[s2].stock = 1)

\* C4: every confirmation that reports success lowers the persisted stock of
\* its reward by exactly one and nothing else changes a stock, so that at all
\* times stock = N - successes and successes <= N.
C4_StockConservation ==
    [][\A r \in RewardIds :
          LET n == Cardinality({s \in Sessions :
                                  CommitsRedeem(s) /\ sess[s].arg = r})
          IN  rewards'[r].stock = rewards[r].stock - n]_vars

\* C5: persisted points are never negative, and a confirmation commits its
\* debit only when the persisted points cover the cost at that moment.
C5_DebitOnlyWhenAffordable ==
    [][/\ \A u \in UserIds : users'[u].present => users'[u].points >= 0
       /\ \A s \in Sessions :
             CommitsRedeem(s) =>
                users[sess[s].uid].points >= rewards[sess[s].arg].cost]_vars

\* Another handler for the same user and the same token (or reward) is open.
SameTokenOpen(s) ==
    \E s2 \in Sessions :
        /\ s2 # s
        /\ sess[s2].pc # "idle"
        /\ sess[s2].kind = sess[s].kind
        /\ sess[s2].uid = sess[s].uid
        /\ sess[s2].arg = sess[s].arg

\* C6: no update of a user's points is lost when handlers for different tokens,
\* or an award and a redemption, overlap: every award commit raises the
\* persisted points by the mission's points and every redemption commit lowers
\* them by the cost, whatever the other session wrote since the row was read
\* (so the final points are the initial points plus all deltas minus all costs,
\* as in a serial order).
C6_NoLostUpdate ==
    [][\A s \in Sessions :
          ~SameTokenOpen(s) =>
             /\ CommitsAward(s) =>
                   users'[sess[s].uid].points
                       = users[sess[s].uid].points + sess[s].delta
             /\ CommitsRedeem(s) =>
                   users'[sess[s].uid].points
                       = users[sess[s].uid].points - rewards[sess[s].arg].cost]_vars

\* C7: an award to a user loaded at level 1 ends with the level of the highest
\* threshold its points have met and with the level achievement of every level
\* from 2 up to it.
C7_MultiThreshold ==
    \A s \in Sessions :
        (sess[s].pc = "done" /\ TookAward(s) /\ sess[s].snap.level = 1)
        => /\ sess[s].user.level = HighestLevel(sess[s].user.points)
           /\ \A l \in 2 .. HighestLevel(sess[s].user.points) :
                 Contains(sess[s].user.achievements, LevelAchievement(l))

\* C8: in every persisted state the level of a user is at least the highest
\* level whose threshold the user's points have reached.
C8_LevelTracksThresholds ==
    \A u \in UserIds :
        users[u].present => users[u].level >= HighestLevel(users[u].points)

\* C9: a user's persisted level never decreases, is always >= 1, and a
\* redemption commit leaves it unchanged.
C9_LevelMonotone ==
    [][\A u \in UserIds :
          users[u].present =>
             /\ users'[u].level >= users[u].level
             /\ users'[u].level >= 1
             /\ (\E s \in Sessions : CommitsRedeem(s))
                   => users'[u].level = users[u].level]_vars

C11_AtomicDebitDecrement ==
    [][\A s \in Sessions :
          /\ CommitsRedeem(s) =>
                /\ users'[sess[s].uid].points
                      = users[sess[s].uid].points - rewards[sess[s].arg].cost
                /\ rewards'[sess[s].arg].stock = rewards[sess[s].arg].stock - 1
          /\ (sess[s].pc = "redeem" /\ sess'[s].out = "error") =>
                (users' = users /\ rewards' = rewards)]_vars

\* The step is taken by handler s.
StepOf(s) == sess'[s] # sess[s]

\* C12: a step of a confirmation that does not commit a redemption changes no
\* user, mission or reward row, and a confirmation that found its reward with
\* stock <= 0 and found its user is refused as unavailable whatever the
\* user's points.
C12_FailedRedeemChangesNothing ==
    [][\A s \in Sessions :
          (StepOf(s) /\ sess'[s].kind = "redeem") =>
             /\ ~CommitsRedeem(s) =>
                   (users' = users /\ rewards' = rewards /\ missions' = missions)
             /\ (/\ sess'[s].pc = "done"
                 /\ sess'[s].found /\ sess'[s].snap.present
                 /\ sess'[s].stock <= 0)
                => sess'[s].out = "unavailable"]_vars

\* C12 witness: a user who could pay was refused a reward whose stock is 0,
\* and the rows are as the handler read them.
C12_Witness ==
    \E s \in Sessions :
        /\ sess[s].pc = "done" /\ sess[s].kind = "redeem"
        /\ sess[s].found /\ sess[s].stock = 0
        /\ sess[s].snap.present
        /\ sess[s].snap.points >= rewards[sess[s].arg].cost
        /\ sess[s].out = "unavailable"
        /\ users[sess[s].uid] = sess[s].snap
        /\ rewards[sess[s].arg].stock = 0

\* Every handler has answered.
AllAnswered == \A s \in Sessions : sess[s].pc \in {"idle", "done"}

\* The administrator's /resetear has been handled by s.
ResetHandled(s) ==
    sess[s].pc = "done" /\ sess[s].kind = "reset" /\ sess[s].uid = ADMIN_ID

C14_ResetPostcondition ==
    [][\A s \in Sessions :
          (/\ Answered(s)
           /\ sess[s].pc = "idle"
           /\ sess'[s].kind = "reset" /\ sess'[s].uid = ADMIN_ID)
          => \A u \in UserIds :
                users'[u].present =>
                   /\ users'[u].points = 0
                   /\ users'[u].level = 1
                   /\ users'[u].achievements = <<>>
                   /\ users'[u].completed_missions = <<>>]_vars

\* C15: the table never holds two rows for one telegram_id; a step of a /start
\* handler leaves the row of a user who is already registered as it was; and
\* a /start whose INSERT meets a row stored meanwhile by a concurrent /start
\* is answered "already registered", every /start being answered with the
\* welcome or with "already registered" and never with the error message.
C15_RegisterAtMostOnce ==
    [][/\ \A u \in UserIds : users'[u].present => users'[u].rows = 1
       /\ \A s \in Sessions :
             (StepOf(s) /\ sess'[s].kind = "start") =>
                /\ users[sess'[s].uid].present =>
                      users'[sess'[s].uid] = users[sess'[s].uid]
                /\ sess'[s].pc = "done" =>
                      sess'[s].out \in {"welcome", "registered"}
                /\ (sess[s].pc = "insert" /\ users[sess'[s].uid].present) =>
                      sess'[s].out = "registered"]_vars

\* C15 witness: two /start of one user both found no row; the one that
\* committed second was answered "already registered", after the user had
\* earned points, and there is one row with those points.
C15_Witness ==
    \E s \in Sessions :
        /\ sess[s].pc = "done" /\ sess[s].kind = "start"
        /\ ~sess[s].snap.present
        /\ sess[s].out = "registered"
        /\ users[sess[s].uid].present
        /\ users[sess[s].uid].rows = 1
        /\ users[sess[s].uid].points > 0

\* C16: when a commit of an award fails, the persisted points and level of the
\* user are both as before the award or both as after it: the points are
\* never stored without the level they imply.
C16_NoPartialAward ==
    [][\A s \in Sessions :
          (/\ sess[s].pc \in {"award", "levelup"}
           /\ sess'[s].out = "error")
          => LET row == users'[sess[s].uid]
                 pre == sess[s].snap
                 post == check_level_up(
                            [pre EXCEPT !.points = @ + sess[s].delta]).user
             IN  \/ row.points = pre.points /\ row.level = pre.level
                 \/ row.points = post.points /\ row.level = post.level]_vars

\* The reason a confirmation that has answered did not redeem, by the order
\* reward, user, stock, points.
FailureKind(s) ==
    IF ~sess[s].found THEN "RewardNotFound"
    ELSE IF ~sess[s].snap.present THEN "UserNotFound"
    ELSE IF sess[s].stock <= 0 THEN "OutOfStock"
    ELSE IF sess[s].snap.points < rewards[sess[s].arg].cost
         THEN "InsufficientPoints"
    ELSE "none"

\* The confirmation has answered that it did not redeem.
Refused(s) ==
    /\ sess[s].pc = "done" /\ sess[s].kind = "redeem"
    /\ sess[s].out \in {"unavailable", "insufficient"}

\* C17: two confirmations refused for different reasons (reward not found,
\* user not found, out of stock, insufficient points) are answered with
\* different outcomes.
C17_DiscriminatedOutcomes ==
    \A s1, s2 \in Sessions :
        (Refused(s1) /\ Refused(s2) /\ FailureKind(s1) # FailureKind(s2))
        => sess[s1].out # sess[s2].out

\* The one-time achievement of a kind of award ("" for the test button).
FirstAchievement(kind) ==
    CASE kind = "post" -> "Primera Reaccion"
      [] kind = "poll" -> "Primera Encuesta"
      [] OTHER -> ""

LevelAchievements ==
    {LevelAchievement(level_thresholds[i].level) :
        i \in 1 .. Len(level_thresholds)}

\* C18: with the handlers run one after the other, the commit of a post
\* reaction or poll answer raises the stored points of the user by exactly
\* the mission's points, and the stored record then holds the mission id in
\* completed_missions and the one-time achievement of the kind exactly once.
C18_PostPollAward ==
    [][\A s \in Sessions :
          (CommitsAward(s) /\ sess[s].kind \in {"post", "poll"}) =>
             LET row == users'[sess[s].uid]
             IN  /\ row.points = users[sess[s].uid].points
                                    + missions[sess[s].arg].points
                 /\ Contains(row.completed_missions, sess[s].arg)
                 /\ Occurrences(row.achievements,
                                FirstAchievement(sess[s].kind)) = 1]_vars

\* C19: with the handlers run one after the other, the commit of a test
\* action raises the stored points by exactly 5, the stored record then holds
\* the token "test_mission" and no new achievement but level achievements, and
\* the test action is committed for a user at most once: never for a user
\* whose record holds the token, nor after a test award for the same user
\* whose handler has answered.
C19_TestAction ==
    [][\A s \in Sessions :
          (CommitsAward(s) /\ sess[s].kind = "test") =>
             LET row == users'[sess[s].uid]
             IN  /\ row.points = users[sess[s].uid].points + TestPoints
                 /\ \A i \in 1 .. Len(row.achievements) :
                       \/ row.achievements[i] \in LevelAchievements
                       \/ Contains(users[sess[s].uid].achievements,
                                   row.achievements[i])
                 /\ ~Contains(users[sess[s].uid].completed_missions,
                              test_mission_id)
                 /\ \A s2 \in Sessions \ {s} :
                       ~(/\ sess[s2].pc = "done" /\ TookAward(s2)
                         /\ sess[s2].kind = "test"
                         /\ sess[s2].uid = sess[s].uid)
                 /\ Contains(row.completed_missions, test_mission_id)]_vars

\* The event handler s has taken up cannot be resolved: its user has no row,
\* or (post, poll) its mission id or poll id matches no mission.
Unresolvable(s) ==
    /\ sess'[s].kind \in {"test", "post", "poll"}
    /\ \/ ~users[sess'[s].uid].present
       \/ /\ sess'[s].kind # "test"
          /\ ~(sess'[s].arg \in MissionIds /\ missions[sess'[s].arg].present)

\* C20: a test action, post reaction or poll answer that cannot be resolved is
\* answered at once as not found, and neither that step nor the closing of
\* its handler changes or creates any user, mission or reward row.
C20_UnresolvableNoOp ==
    [][\A s \in Sessions :
          /\ (Starts(s) /\ Unresolvable(s)) =>
                /\ sess'[s].pc = "done" /\ sess'[s].out = "notfound"
                /\ users' = users /\ missions' = missions /\ rewards' = rewards
          /\ (StepOf(s) /\ sess[s].out = "notfound") =>
                (users' = users /\ missions' = missions /\ rewards' = rewards)]_vars

\* C20 witness: a poll answer of the registered user for a poll id no mission
\* carries and a test action of an unregistered user were both answered as
\* not found; the unregistered user still has no row.
C20_Witness ==
    \E s1, s2 \in Sessions :
        /\ sess[s1].pc = "done" /\ sess[s1].kind = "poll"
        /\ users[sess[s1].uid].present /\ sess[s1].arg \notin MissionIds
        /\ sess[s1].out = "notfound"
        /\ sess[s2].pc = "done" /\ sess[s2].kind = "test"
        /\ sess[s2].out = "notfound"
        /\ ~users[sess[s2].uid].present

\* C21: the stock of a reward never increases and changes only in the commit
\* of a successful redemption, which changes the stock of its own reward
\* alone; no step, a restart's init_db included, adds a second row for a
\* name or changes a cost; and awards, registrations and resets change no
\* reward.
C21_StockOnlyByRedemption ==
    [][/\ \A r \in RewardIds :
             /\ rewards'[r].stock <= rewards[r].stock
             /\ rewards'[r].rows = 1
             /\ rewards'[r].cost = rewards[r].cost
             /\ rewards'[r].stock # rewards[r].stock =>
                    \E s \in Sessions : CommitsRedeem(s) /\ sess[s].arg = r
       /\ \A s \in Sessions :
             (StepOf(s) /\ sess'[s].kind # "redeem") => rewards' = rewards]_vars

\* The user a step of handler s works for.
UserOf(s) == IF sess[s].pc = "idle" THEN sess'[s].uid ELSE sess[s].uid

\* C22: a step of an award or a redemption for one user leaves the record of
\* every other user (points, level, achievements, completed_missions) and the
\* loaded objects of every other handler as they were; the handler loads and
\* writes the record of its own user alone, so the record of the other user
\* is what the other user's handlers alone have made it.
C22_UsersIndependent ==
    [][\A s \in Sessions :
          (StepOf(s) /\ (sess[s].kind \in {"test", "post", "poll", "redeem"}
                          \/ sess'[s].kind \in {"test", "post", "poll", "redeem"}))
          => /\ \A u \in UserIds \ {UserOf(s)} : users'[u] = users[u]
             /\ \A s2 \in Sessions \ {s} : sess'[s2] = sess[s2]
             /\ (sess'[s].pc # "idle" /\ sess'[s].snap # sess[s].snap)
                   => sess'[s].snap = users[UserOf(s)]
             /\ \/ users'[UserOf(s)] = users[UserOf(s)]
                \/ /\ sess[s].user.present
                   /\ users'[UserOf(s)] \in
                         {FlushPoints(users[UserOf(s)], sess[s].user),
                          FlushLevel(users[UserOf(s)], sess[s].user)}]_vars

\* C22 witness: user 1 has redeemed (20 points spent, stock lowered) while a
\* poll answer of user 2, read before it, waits for its commit; user 2 still
\* holds the 10 points of an earlier answer and level 2.
C22_Witness ==
    \E s1, s2 \in Sessions :
        /\ sess[s1].pc = "done" /\ sess[s1].out = "redeemed" /\ sess[s1].uid = 1
        /\ sess[s2].pc = "award" /\ sess[s2].uid = 2
        /\ sess[s2].snap.points = 10
        /\ users[1].points = 0 /\ users[1].level = 2
        /\ users[2].points = 10 /\ users[2].level = 2
        /\ rewards[1].stock < SeedStock

\* Every completion token: the mission ids and the token of the test button.
Tokens == MissionIds \cup {test_mission_id}

\* C23: with the handlers run one after the other, every step that raises the
\* stored points of a user stores a new completion token in the user's
\* completed_missions, every step that stores a new token raises the points,
\* and a failing commit stores neither; so a stored record never has the
\* points of a mission without its token.
C23_TokenWithPoints ==
    [][/\ \A u \in UserIds :
             users[u].present =>
                LET gained == users'[u].points > users[u].points
                    claimed == \E k \in Tokens :
                                  /\ Contains(users'[u].completed_missions, k)
                                  /\ ~Contains(users[u].completed_missions, k)
                IN  gained <=> claimed
       /\ \A s \in Sessions :
             (sess[s].pc = "award" /\ sess'[s].out = "error") => users' = users]_vars

\* The threshold of table level l.
PointsNeeded(l) ==
    level_thresholds[CHOOSE i \in 1 .. Len(level_thresholds) :
                        level_thresholds[i].level = l].points_needed

\* C24: every change of a stored level is from L-1 to L, L being a level of the
\* table whose threshold the stored points have met, and the step stores the
\* achievement of level L with it; so every stored record holds the level
\* achievement of every level from 2 up to its level.
C24_LevelStepWithAchievement ==
    [][\A u \in UserIds :
          users[u].present =>
             /\ users'[u].level # users[u].level =>
                   /\ users'[u].level = users[u].level + 1
                   /\ users'[u].points >= PointsNeeded(users'[u].level)
                   /\ Contains(users'[u].achievements,
                               LevelAchievement(users'[u].level))
             /\ \A l \in 2 .. users'[u].level :
                   Contains(users'[u].achievements, LevelAchievement(l))]_vars

\* The administrative commands.
AdminKinds == {"reset", "publish", "newpoll", "export"}

\* C25: a /resetear, /publicar, /encuesta or /exportar whose sender is not
\* ADMIN_ID is turned away at once and no step of it changes a user, mission
\* or reward record; and a mission is created only by a step of a /publicar
\* or /encuesta sent by ADMIN_ID.
C25_AdminGate ==
    [][/\ \A s \in Sessions :
             (/\ StepOf(s)
              /\ (sess[s].kind \in AdminKinds \/ sess'[s].kind \in AdminKinds)
              /\ UserOf(s) # ADMIN_ID)
             => /\ users' = users /\ missions' = missions /\ rewards' = rewards
                /\ Starts(s) => (sess'[s].pc = "done" /\ sess'[s].out = "denied")
       /\ missions' # missions =>
             \E s \in Sessions :
                 /\ StepOf(s)
                 /\ sess[s].kind \in {"publish", "newpoll"}
                 /\ sess[s].uid = ADMIN_ID]_vars

\* C25 witness: the /publicar of a user who is not the administrator was
\* turned away while a poll created by the administrator exists and that
\* user holds the points of an answer to it.
C25_Witness ==
    \E s \in Sessions, m \in MissionIds :
        /\ sess[s].pc = "done" /\ sess[s].kind = "publish"
        /\ sess[s].uid # ADMIN_ID /\ sess[s].out = "denied"
        /\ missions[m].present /\ missions[m].type = "poll"
        /\ users[sess[s].uid].points = PollPoints
        /\ \E m1 \in MissionIds : ~missions[m1].present

====
